---------------------------- MODULE Spec2Model ----------------------------
(***************************************************************************)
(* A model of the text transformation pipeline of src/summarize.py and     *)
(* src/answer.py.                                                          *)
(*                                                                         *)
(* A Python str is a sequence of one-character strings.  The text handed   *)
(* to summarize_text is the exception: the controller reads nothing from   *)
(* it but its word count and its sentences' word counts, so it is the      *)
(* sequence of its sentences' word counts, and a chunk of it is the        *)
(* sequence of the sentences (position, word count) joined into it.        *)
(***************************************************************************)
EXTENDS Integers, Sequences, FiniteSets, TLC

VARIABLES
    pc,               \* where the operation under way stands
    text,             \* the text argument
    max_words,        \* the max_words argument of chunk_text / truncate_to_words
    result,           \* what the operation returned
    calls,            \* summarize_text: the summarizer calls made, in order
    outputs,          \* summarize_text: what the summarizer returned, call by call
    chunks,           \* summarize_text: chunks
    chunk_summaries,  \* summarize_text: chunk_summaries
    summary,          \* summarize_text: summary / final_summary
    question,         \* answer_question: question
    context,          \* answer_question: context
    raw_answer,       \* answer_question: result['answer'] of the pipeline
    preamble,         \* _build_fluent_answer: the preamble after the article rule
    refined           \* improve_summary: the first application's result

sumVars == <<calls, outputs, chunks, chunk_summaries, summary>>

ansVars == <<question, context, raw_answer, preamble>>

vars == <<pc, text, max_words, result, refined, sumVars, ansVars>>

-----------------------------------------------------------------------------
(* Characters and the str methods the code uses.                           *)

LowerLetters ==
    <<"a","b","c","d","e","f","g","h","i","j","k","l","m",
      "n","o","p","q","r","s","t","u","v","w","x","y","z">>

UpperLetters ==
    <<"A","B","C","D","E","F","G","H","I","J","K","L","M",
      "N","O","P","Q","R","S","T","U","V","W","X","Y","Z">>

Digits == {"0","1","2","3","4","5","6","7","8","9"}

Whitespace == {" ", "\t", "\n"}

Terminators == {".", "!", "?"}

Range(s) == {s[i] : i \in DOMAIN s}

\* \w of the re module
WordChars == Range(LowerLetters) \cup Range(UpperLetters) \cup Digits \cup {"_"}

IsWordChar(c) == c \in WordChars

UpperOf == [c \in Range(LowerLetters) |->
               UpperLetters[CHOOSE i \in DOMAIN LowerLetters : LowerLetters[i] = c]]

LowerOf == [c \in Range(UpperLetters) |->
               LowerLetters[CHOOSE i \in DOMAIN UpperLetters : UpperLetters[i] = c]]

\* str.upper() and str.lower() of one character
upper(c) == IF c \in DOMAIN UpperOf THEN UpperOf[c] ELSE c

lower(c) == IF c \in DOMAIN LowerOf THEN LowerOf[c] ELSE c

\* str.lower()
LowerStr(s) == [i \in DOMAIN s |-> lower(s[i])]

\* s[a:b] with 1-based inclusive bounds
Slice(s, a, b) == IF b < a THEN <<>> ELSE SubSeq(s, a, b)

\* str.startswith(p)
StartsWith(s, p) == Len(p) <= Len(s) /\ SubSeq(s, 1, Len(p)) = p

\* str.endswith(p)
EndsWith(s, p) == Len(p) <= Len(s) /\ SubSeq(s, Len(s) - Len(p) + 1, Len(s)) = p

\* str.endswith(('.', '!', '?')) and the like: the last character is in cs
EndsWithAny(s, cs) == Len(s) > 0 /\ s[Len(s)] \in cs

\* p in s
Contains(s, p) == \E i \in 1..(Len(s) - Len(p) + 1) : SubSeq(s, i, i + Len(p) - 1) = p

\* str.lstrip(cs) / str.rstrip(cs) / str.strip()
LStripSet(s, cs) ==
    LET keep == {i \in DOMAIN s : s[i] \notin cs}
    IN  IF keep = {} THEN <<>>
        ELSE SubSeq(s, CHOOSE i \in keep : \A k \in keep : i <= k, Len(s))

RStripSet(s, cs) ==
    LET keep == {i \in DOMAIN s : s[i] \notin cs}
    IN  IF keep = {} THEN <<>>
        ELSE SubSeq(s, 1, CHOOSE i \in keep : \A k \in keep : k <= i)

Strip(s) == LStripSet(RStripSet(s, Whitespace), Whitespace)

\* s[0].upper() + s[1:] and s[0].lower() + s[1:], for a non-empty s
CapFirst(s) == <<upper(s[1])>> \o Tail(s)

LowerFirst(s) == <<lower(s[1])>> \o Tail(s)

\* str.split(): the maximal runs of non-whitespace characters
WordStarts(s) ==
    {i \in DOMAIN s : s[i] \notin Whitespace /\ (i = 1 \/ s[i - 1] \in Whitespace)}

WordEnds(s) ==
    {i \in DOMAIN s : s[i] \notin Whitespace /\ (i = Len(s) \/ s[i + 1] \in Whitespace)}

\* the k-th smallest element of a set of numbers
Nth(S, k) == CHOOSE i \in S : Cardinality({j \in S : j < i}) = k - 1

Words(s) ==
    [k \in 1..Cardinality(WordStarts(s)) |->
        SubSeq(s, Nth(WordStarts(s), k), Nth(WordEnds(s), k))]

\* len(s.split())
WordCount(s) == Cardinality(WordStarts(s))

\* sep.join(parts)
RECURSIVE Join(_, _)
Join(parts, sep) ==
    IF parts = <<>> THEN <<>>
    ELSE IF Len(parts) = 1 THEN parts[1]
    ELSE parts[1] \o sep \o Join(Tail(parts), sep)

JoinSpace(parts) == Join(parts, <<" ">>)

\* the concatenation of a sequence of sequences
RECURSIVE Flatten(_)
Flatten(ss) == IF ss = <<>> THEN <<>> ELSE ss[1] \o Flatten(Tail(ss))

RECURSIVE SumSeq(_)
SumSeq(ns) == IF ns = <<>> THEN 0 ELSE ns[1] + SumSeq(Tail(ns))

Max(a, b) == IF a >= b THEN a ELSE b

Min(a, b) == IF a <= b THEN a ELSE b

\* all sequences over S of length at most n
SeqsUpTo(S, n) == UNION {[1..k -> S] : k \in 0..n}

-----------------------------------------------------------------------------
(* chunk_text                                                              *)

\* re.split(r'(?<=[.!?]) +', text): a split at every run of spaces that
\* follows a terminator; the runs are dropped
RECURSIVE SplitFrom(_, _, _, _)
SplitFrom(s, i, cur, acc) ==
    IF i > Len(s) THEN Append(acc, cur)
    ELSE IF s[i] = " " /\ i > 1 /\ s[i - 1] \in Terminators
         THEN LET rest == {j \in i..Len(s) : s[j] # " "}
                  nxt  == IF rest = {} THEN Len(s) + 1
                          ELSE CHOOSE j \in rest : \A k \in rest : j <= k
              IN  SplitFrom(s, nxt, <<>>, Append(acc, cur))
         ELSE SplitFrom(s, i + 1, Append(cur, s[i]), acc)

SplitSentences(s) == SplitFrom(s, 1, <<>>, <<>>)

\* The loop of chunk_text over the sentences' word counts wcs.  A chunk is
\* the sequence of the positions of the sentences joined into it.
RECURSIVE ChunkLoop(_, _, _, _, _, _)
ChunkLoop(wcs, i, max, cks, current_chunk, current_length) ==
    IF i > Len(wcs)
    THEN (IF current_chunk # <<>> THEN Append(cks, current_chunk) ELSE cks)
    ELSE IF current_length + wcs[i] > max
         THEN ChunkLoop(wcs, i + 1, max, Append(cks, current_chunk), <<i>>, wcs[i])
         ELSE ChunkLoop(wcs, i + 1, max, cks, Append(current_chunk, i),
                        current_length + wcs[i])

\* chunk_text without lines 21-22: the last open chunk is not emitted
ChunkGroupsNoFlush(wcs, max) ==
    LET cks == ChunkLoop(wcs, 1, max, <<>>, <<>>, 0)
    IN  Slice(cks, 1, Len(cks) - 1)

ChunkGroups(wcs, max) == ChunkLoop(wcs, 1, max, <<>>, <<>>, 0)

\* chunk_text(text, max_words) on a str: the chunks as strings
chunk_text(s, max) ==
    LET sentences == SplitSentences(s)
        wcs       == [i \in DOMAIN sentences |-> WordCount(sentences[i])]
        groups    == ChunkGroups(wcs, max)
    IN  [g \in DOMAIN groups |->
            JoinSpace([k \in DOMAIN groups[g] |-> sentences[groups[g][k]]])]


-----------------------------------------------------------------------------
(* truncate_to_words                                                       *)

\* the largest i with truncated[i] ending in '.', '!' or '?'; 0 if none
LastBoundary(truncated) ==
    LET hits == {i \in DOMAIN truncated : EndsWithAny(truncated[i], Terminators)}
    IN  IF hits = {} THEN 0 ELSE CHOOSE i \in hits : \A k \in hits : k <= i

\* truncate_to_words with line 35 not appending the period
truncate_to_words_no_period(s, max) ==
    LET words     == Words(s)
        truncated == Slice(words, 1, Min(max, Len(words)))
        i         == LastBoundary(truncated)
    IN  IF Len(words) <= max THEN s
        ELSE IF i > 0 THEN JoinSpace(Slice(truncated, 1, i))
        ELSE RStripSet(JoinSpace(truncated), {".", ",", ";", ":"})

truncate_to_words(s, max) ==
    LET words     == Words(s)
        truncated == Slice(words, 1, Min(max, Len(words)))
        i         == LastBoundary(truncated)
    IN  IF Len(words) <= max THEN s
        ELSE IF i > 0 THEN JoinSpace(Slice(truncated, 1, i))
        ELSE RStripSet(JoinSpace(truncated), {".", ",", ";", ":"}) \o <<".">>

-----------------------------------------------------------------------------
(* improve_summary: the six re.sub rules, then the clean-up and truncation. *)
(* A rule's Match operator gives the last position of the match that       *)
(* starts at position i, or 0 when none starts there; re.sub replaces the  *)
(* leftmost matches, none overlapping another.                             *)

\* \b between s[i-1] and s[i]
Boundary(s, i) ==
    (i > 1 /\ i - 1 <= Len(s) /\ IsWordChar(s[i - 1])) # (i >= 1 /\ i <= Len(s) /\ IsWordChar(s[i]))

\* the least element of a non-empty set of positions
Least(S) == CHOOSE j \in S : \A k \in S : j <= k

\* the last position of the run of characters of cs that starts at i
RunEnd(s, i, cs) ==
    LET stops == {j \in (i + 1)..Len(s) : s[j] \notin cs}
    IN  IF stops = {} THEN Len(s) ELSE Least(stops) - 1

FillerPhrase == <<"t","h","i","s"," ","i","s"," ","a"," ","g","o","o","d"," ","e","x","a","m","p","l","e"," ","o","f">>

\* r'(\bthis is a good example of\b.*?\. )', re.I
FillerMatch(s, i) ==
    LET n    == Len(FillerPhrase)
        ends == {j \in (i + n)..(Len(s) - 1) :
                    /\ s[j] = "." /\ s[j + 1] = " "
                    /\ \A k \in (i + n)..(j - 1) : s[k] # "\n"}
    IN  IF /\ i + n - 1 <= Len(s)
           /\ Boundary(s, i)
           /\ LowerStr(SubSeq(s, i, i + n - 1)) = FillerPhrase
           /\ Boundary(s, i + n)
           /\ ends # {}
        THEN 1 + Least(ends)
        ELSE 0

RECURSIVE SubFiller(_, _, _)
SubFiller(s, i, acc) ==
    LET starts == {j \in i..Len(s) : FillerMatch(s, j) > 0}
    IN  IF starts = {} THEN acc \o Slice(s, i, Len(s))
        ELSE LET j == Least(starts)
             IN  SubFiller(s, FillerMatch(s, j) + 1, acc \o Slice(s, i, j - 1))

\* the last position of the copies of sep + w that follow position e, each
\* ending at a \b, compared case-insensitively when fold; e itself when
\* there is none
RECURSIVE CopiesEnd(_, _, _, _, _)
CopiesEnd(s, e, w, sep, fold) ==
    LET n == Len(sep) + Len(w)
    IN  IF /\ e + n <= Len(s)
           /\ SubSeq(s, e + 1, e + Len(sep)) = sep
           /\ (IF fold THEN LowerStr(SubSeq(s, e + Len(sep) + 1, e + n)) = LowerStr(w)
                       ELSE SubSeq(s, e + Len(sep) + 1, e + n) = w)
           /\ Boundary(s, e + n + 1)
        THEN CopiesEnd(s, e + n, w, sep, fold)
        ELSE e

\* r'\b(\w+)( \1\b)+' (sep = " ") and r'(\b\w+\b)( and \1\b)+', re.I
\* (sep = " and "): a whole word followed by copies of itself
RepeatMatch(s, i, sep, fold) ==
    IF IsWordChar(s[i]) /\ Boundary(s, i)
    THEN LET e == RunEnd(s, i, WordChars)
             c == CopiesEnd(s, e, SubSeq(s, i, e), sep, fold)
         IN  IF c > e THEN c ELSE 0
    ELSE 0

RECURSIVE SubRepeat(_, _, _, _, _)
SubRepeat(s, i, sep, fold, acc) ==
    LET starts == {j \in i..Len(s) : RepeatMatch(s, j, sep, fold) > 0}
    IN  IF starts = {} THEN acc \o Slice(s, i, Len(s))
        ELSE LET j == Least(starts)
             IN  SubRepeat(s, RepeatMatch(s, j, sep, fold) + 1, sep, fold,
                           acc \o Slice(s, i, RunEnd(s, j, WordChars)))

\* r'\s+([.,])' -> r'\1'
SpacePunctMatch(s, i) ==
    LET e == RunEnd(s, i, Whitespace)
    IN  IF s[i] \in Whitespace /\ e + 1 <= Len(s) /\ s[e + 1] \in {".", ","}
        THEN e + 1 ELSE 0

RECURSIVE SubSpaceBeforePunct(_, _, _)
SubSpaceBeforePunct(s, i, acc) ==
    LET starts == {j \in i..Len(s) : SpacePunctMatch(s, j) > 0}
    IN  IF starts = {} THEN acc \o Slice(s, i, Len(s))
        ELSE LET j == Least(starts)
                 e == SpacePunctMatch(s, j)
             IN  SubSpaceBeforePunct(s, e + 1, acc \o Slice(s, i, j - 1) \o <<s[e]>>)

\* r'\. ([Tt]he)' -> r'; \1'
PeriodTheMatch(s, i) ==
    IF /\ i + 4 <= Len(s)
       /\ s[i] = "." /\ s[i + 1] = " "
       /\ s[i + 2] \in {"T", "t"} /\ s[i + 3] = "h" /\ s[i + 4] = "e"
    THEN i + 4 ELSE 0

RECURSIVE SubPeriodThe(_, _, _)
SubPeriodThe(s, i, acc) ==
    LET starts == {j \in i..Len(s) : PeriodTheMatch(s, j) > 0}
    IN  IF starts = {} THEN acc \o Slice(s, i, Len(s))
        ELSE LET j == Least(starts)
             IN  SubPeriodThe(s, j + 5,
                              acc \o Slice(s, i, j - 1) \o <<";", " ", s[j + 2], "h", "e">>)

\* r'\s{2,}' -> ' '
SpacesMatch(s, i) ==
    LET e == RunEnd(s, i, Whitespace)
    IN  IF s[i] \in Whitespace /\ e > i THEN e ELSE 0

RECURSIVE SubSpaces(_, _, _)
SubSpaces(s, i, acc) ==
    LET starts == {j \in i..Len(s) : SpacesMatch(s, j) > 0}
    IN  IF starts = {} THEN acc \o Slice(s, i, Len(s))
        ELSE LET j == Least(starts)
             IN  SubSpaces(s, SpacesMatch(s, j) + 1, acc \o Slice(s, i, j - 1) \o <<" ">>)

\* lines 92-98
CleanUp(s) ==
    LET s1 == SubFiller(s, 1, <<>>)
        s2 == SubRepeat(s1, 1, <<" ">>, FALSE, <<>>)
        s3 == SubRepeat(s2, 1, <<" ", "a", "n", "d", " ">>, TRUE, <<>>)
        s4 == SubSpaceBeforePunct(s3, 1, <<>>)
        s5 == SubPeriodThe(s4, 1, <<>>)
        s6 == SubSpaces(s5, 1, <<>>)
    IN  Strip(s6)

\* lines 99-102
Finish(s) ==
    LET c == IF s # <<>> THEN CapFirst(s) ELSE s
    IN  IF c # <<>> /\ ~EndsWith(c, <<".">>) THEN c \o <<".">> ELSE c

improve_summary(s, max) ==
    LET max_summary_words == Max(20, Min(100, max))
    IN  Strip(truncate_to_words(Finish(CleanUp(s)), max_summary_words))

-----------------------------------------------------------------------------
(* scale_summary_length and summarize_text.  Here text is the sequence of  *)
(* its sentences' word counts; min_len and max_len are locals of            *)
(* summarize_text that only depend on it.                                  *)

scale_summary_length(word_count) ==
    IF word_count < 50 THEN <<20, 30>>
    ELSE IF word_count < 150 THEN <<30, 50>>
    ELSE IF word_count < 500 THEN <<50, 100>>
    ELSE <<80, 160>>

\* len(text.split()): no word straddles two sentences
word_count == SumSeq(text)

min_len == scale_summary_length(word_count)[1]

max_len == scale_summary_length(word_count)[2]

ShortPathLimit == 500

SummarizeChunkWords == 600

RetryExtra == 30

\* the retry repeating the first call's max_length
RetryMaxLengthSame(max) == max

\* the max_length of the retry
RetryMaxLength(max) == max + RetryExtra

first_pass_min == Max(15, min_len \div 3)

first_pass_max == Max(30, max_len \div 3)

\* the test before the retry, lines 60 and 83
Degenerate(s, min) ==
    WordCount(s) < (min \div 2) \/ ~EndsWith(Strip(s), <<".">>)

\* "".join(chunk_summaries)
CombinedSummaryNoSpace(summaries) == Flatten(summaries)

\* " ".join(chunk_summaries)
CombinedSummary(summaries) == JoinSpace(summaries)

\* one call of the summarizer pipeline
Call(input, min, max) == [input |-> input, min_length |-> min, max_length |-> max]

-----------------------------------------------------------------------------
(* StreamlinedQASystem._build_fluent_answer and answer_question.           *)

\* str.replace(old, new), old non-empty
RECURSIVE ReplaceFrom(_, _, _, _, _)
ReplaceFrom(s, i, old, new, acc) ==
    LET starts == {j \in i..(Len(s) - Len(old) + 1) : SubSeq(s, j, j + Len(old) - 1) = old}
    IN  IF starts = {} THEN acc \o Slice(s, i, Len(s))
        ELSE LET j == Least(starts)
             IN  ReplaceFrom(s, j + Len(old), old, new, acc \o Slice(s, i, j - 1) \o new)

Replace(s, old, new) == ReplaceFrom(s, 1, old, new, <<>>)

\* str.startswith(tuple)
StartsWithAny(s, ps) == \E p \in ps : StartsWith(s, p)

NoAnswer == <<"S","o","r","r","y",","," ","I"," ","c","o","u","l","d","n","'","t"," ","f","i","n","d"," ","a","n"," ","a","n","s","w","e","r",".">>

Unable == <<"U","n","a","b","l","e"," ","t","o"," ","d","e","t","e","r","m","i","n","e"," ","a","n","s","w","e","r",".">>

BornIn == <<"S","h","e"," ","w","a","s"," ","b","o","r","n"," ","i","n"," ">>

Born == <<"S","h","e"," ","w","a","s"," ","b","o","r","n"," ">>

\* line 72
preambles ==
    << <<"S","h","e"," ","w","a","s">>,
       <<"T","h","e"," ","a","n","s","w","e","r"," ","i","s">>,
       <<"I","t"," ","i","s">>,
       <<"T","h","i","s"," ","i","s">>,
       <<"A","c","c","o","r","d","i","n","g"," ","t","o"," ","t","h","e"," ","c","o","n","t","e","x","t",","," ","i","t"," ","i","s">>,
       <<"F","r","o","m"," ","t","h","e"," ","i","n","f","o","r","m","a","t","i","o","n",","," ","i","t"," ","a","p","p","e","a","r","s"," ","t","o"," ","b","e">> >>

WhWords ==
    { <<"w","h","o">>,
      <<"w","h","e","r","e">>,
      <<"w","h","e","n">>,
      <<"w","h","a","t">>,
      <<"w","h","i","c","h">>,
      <<"w","h","o","m">>,
      <<"w","h","o","s","e">> }

Articles == { <<"a"," ">>, <<"a","n"," ">>, <<"t","h","e"," ">> }

Prepositions == { <<"i","n"," ">>, <<"o","n"," ">>, <<"a","t"," ">> }

\* lines 54 and 59-61, for a raw answer that is not blank
Normalize(raw) ==
    LET ans == CapFirst(Strip(raw))
    IN  IF EndsWithAny(ans, Terminators) THEN ans ELSE ans \o <<".">>

\* line 64
IsBirthQuestion(q) ==
    Contains(LowerStr(q), <<"b","o","r","n">>) \/ Contains(LowerStr(q), <<"b","i","r","t","h">>)

\* lines 66-69
BirthAnswer(ans) ==
    LET body == IF EndsWith(ans, <<".">>) THEN LowerFirst(ans) ELSE LowerFirst(ans) \o <<".">>
    IN  IF ~StartsWithAny(LowerStr(ans), Prepositions)
        THEN BornIn \o body
        ELSE Born \o body

\* lines 82-88: the preambles random.choice draws from
PreambleChoices(q) ==
    IF StartsWithAny(LowerStr(q), WhWords) THEN 1..3 ELSE 1..Len(preambles)

\* lines 82-88: the preamble, random.choice having drawn preambles[k]
SelectPreamble(q, ans, k) ==
    IF /\ StartsWithAny(LowerStr(q), WhWords)
       /\ EndsWith(preambles[k], <<"w","a","s">>)
       /\ StartsWithAny(LowerStr(ans), Articles)
    THEN Replace(preambles[k], <<" ","w","a","s">>, <<>>)
    ELSE preambles[k]

\* line 92 without the replace of "she was"
PreambleCoreWhole(p) == Strip(LowerStr(p))

\* line 92: what the answer is compared with
PreambleCore(p) == Strip(Replace(LowerStr(p), <<"s","h","e"," ","w","a","s">>, <<>>))

\* lines 92-96
Compose(p, ans) ==
    IF StartsWith(LowerStr(ans), PreambleCore(p))
    THEN ans
    ELSE CapFirst(p \o <<" ">> \o LowerFirst(ans))

\* _build_fluent_answer(question, raw_answer, context), random.choice
\* having drawn index k
build_fluent_answer(q, raw, k) ==
    IF Strip(raw) = <<>> THEN NoAnswer
    ELSE IF IsBirthQuestion(q) THEN BirthAnswer(Normalize(raw))
    ELSE Compose(SelectPreamble(q, Normalize(raw), k), Normalize(raw))

\* the preamble _build_fluent_answer ends with; none where it returns early
PreambleUsed(q, raw, k) ==
    IF Strip(raw) = <<>> \/ IsBirthQuestion(q) THEN <<>>
    ELSE SelectPreamble(q, Normalize(raw), k)

\* line 102 testing the question alone
InvalidInputQuestionOnly(q, c) == Strip(q) = <<>>

\* line 102
InvalidInput(q, c) == Strip(q) = <<>> \/ Strip(c) = <<>>

\* round(score, 4): a score in units of 1e-5, the confidence in units of
\* 1e-4, halves to the even neighbour
Round4(score) ==
    LET d == score \div 10
        r == score % 10
    IN  IF r > 5 \/ (r = 5 /\ d % 2 = 1) THEN d + 1 ELSE d

Answer(a, c) == [answer |-> a, confidence |-> c]

-----------------------------------------------------------------------------
(* Bounds of the inputs.                                                   *)

MaxTextLen == 6

MaxChunkWords == 3

ChunkAlphabet == {"a", " ", ".", "!"}

MaxTruncLen == 5

MaxTruncWords == 3

TruncAlphabet == {"a", " ", ".", ",", "!"}

MaxRefineTokens == 4

MaxRefineLen == 60

\* a summary of 22 words, the 20th ending in '!'
LongSummary ==
    <<"b"," ","c"," ","d"," ","e"," ","f"," ","g"," ","h"," ","i"," ","j"," ","k"," ","l"," ","m"," ","n"," ","o"," ","p"," ","q"," ","r"," ","s"," ","t"," ","u","!"," ","v"," ","w">>

\* the pieces the summaries handed to improve_summary are built of
RefineTokens ==
    { <<"a">>, <<"T","h","e">>, <<" ">>, <<".">>, <<".", " ">>,
      <<" ","a","n","d"," ">>, FillerPhrase, LongSummary }

RefineInputs ==
    {s \in {Flatten(ts) : ts \in SeqsUpTo(RefineTokens, MaxRefineTokens)} :
        Len(s) <= MaxRefineLen}

RefineMaxWords == {5, 30}

MaxAnswerTokens == 3

\* the pieces the raw answers of the QA pipeline are built of
AnswerTokens ==
    { <<"P","o","l","a","n","d">>,
      <<"t","h","e"," ">>,
      <<"i","n"," ">>,
      <<"s","h","e"," ","w","a","s"," ">>,
      <<"i","t"," ","i","s"," ">>,
      <<"!">>,
      <<".">>,
      <<" ">> }

AnswerInputs == {Flatten(ts) : ts \in SeqsUpTo(AnswerTokens, MaxAnswerTokens)}

QuestionInputs ==
    { <<>>,
      <<" ">>,
      <<"W","h","e","r","e"," ","w","a","s"," ","s","h","e"," ","b","o","r","n","?">>,
      <<"D","a","t","e"," ","o","f"," ","B","I","R","T","H">>,
      <<"W","h","o"," ","w","a","s"," ","s","h","e","?">>,
      <<"w","h","a","t"," ","i","s"," ","i","t">>,
      <<"T","e","l","l"," ","m","e">>,
      <<"I","s"," ","i","t"," ","s","o">> }

ContextInputs == { <<>>, <<" ","\n">>, <<"M","a","r","i","e"," ","C","u","r","i","e",".">> }

\* scores of the QA pipeline, in units of 1e-5
ScoreInputs == {43217, 99995}

MaxSentences == 2

\* the word counts a sentence of the text to summarize may have
SentenceWords == {40, 200, 300, 601}

ShortSummaryWords == 3

LongSummaryWords == 45

\* n words, the last one followed by tail
WordsThen(n, tail) == [i \in 1..(2 * n - 1) |-> IF i % 2 = 1 THEN "a" ELSE " "] \o tail

\* what the summarizer may return: too short; long enough and ending in
\* '.', in '!', in a '.' and a space, or in no punctuation at all
SummaryOutputs ==
    { WordsThen(ShortSummaryWords, <<".">>),
      WordsThen(LongSummaryWords, <<".">>),
      WordsThen(LongSummaryWords, <<"!">>),
      WordsThen(LongSummaryWords, <<".", " ">>),
      WordsThen(LongSummaryWords, <<>>) }

Idle ==
    /\ calls = <<>> /\ outputs = <<>> /\ chunks = <<>> /\ chunk_summaries = <<>>
    /\ summary = <<>>
    /\ question = <<>> /\ context = <<>> /\ raw_answer = <<>> /\ preamble = <<>>
    /\ refined = <<>>

-----------------------------------------------------------------------------
(* The Chunker on its own: chunk_text(text, max_words).                     *)

InitChunk ==
    /\ pc = "chunk_text"
    /\ text \in SeqsUpTo(ChunkAlphabet, MaxTextLen)
    /\ max_words \in 0..MaxChunkWords
    /\ result = <<>>
    /\ Idle

ChunkText ==
    /\ pc = "chunk_text"
    /\ result' = chunk_text(text, max_words)
    /\ pc' = "returned"
    /\ UNCHANGED <<text, max_words, refined, sumVars, ansVars>>

NextChunk == ChunkText

SpecChunk == InitChunk /\ [][NextChunk]_vars

NonEmpty(ss) == SelectSeq(ss, LAMBDA x : x # <<>>)

\* the sentences of every chunk, in the order of the chunks
Resplit(cks) == Flatten([g \in DOMAIN cks |-> SplitSentences(cks[g])])

\* C5: for max_words >= 1 no emitted chunk is empty, and the empty text
\* yields no chunk at all.
C5_NoEmptyChunk ==
    (pc = "returned" /\ max_words >= 1) =>
        /\ \A g \in DOMAIN result : result[g] # <<>>
        /\ (text = <<>> => result = <<>>)

\* C6: the chunks hold the sentences of the text, each once, whole and in
\* order, and a chunk of more than max_words words is a single sentence.
C6_Partition ==
    pc = "returned" =>
        /\ NonEmpty(Resplit(result)) = NonEmpty(SplitSentences(text))
        /\ \A g \in DOMAIN result :
              \/ WordCount(result[g]) <= max_words
              \/ Len(SplitSentences(result[g])) = 1

\* a text cut into several chunks, none empty, one of them of two sentences
C6_Witness ==
    /\ pc = "returned"
    /\ Len(result) >= 2
    /\ \A g \in DOMAIN result : result[g] # <<>>
    /\ \E g \in DOMAIN result :
          /\ Len(SplitSentences(result[g])) = 2
          /\ WordCount(result[g]) = 2

-----------------------------------------------------------------------------
(* Sentence-boundary truncation on its own: truncate_to_words(text,        *)
(* max_words).                                                             *)

InitTrunc ==
    /\ pc = "truncate_to_words"
    /\ text \in SeqsUpTo(TruncAlphabet, MaxTruncLen)
    /\ max_words \in 0..MaxTruncWords
    /\ result = <<>>
    /\ Idle

TruncateToWords ==
    /\ pc = "truncate_to_words"
    /\ result' = truncate_to_words(text, max_words)
    /\ pc' = "returned"
    /\ UNCHANGED <<text, max_words, refined, sumVars, ansVars>>

NextTrunc == TruncateToWords

SpecTrunc == InitTrunc /\ [][NextTrunc]_vars

\* C7 as stated: the output has at most max_words words and ends in a
\* sentence terminator, for every text and every max_words.
C7_Original ==
    pc = "returned" =>
        /\ WordCount(result) <= max_words
        /\ EndsWithAny(result, Terminators)

\* C7 as amended: for max_words >= 1 the output has at most max_words
\* words; a text within the budget is returned unchanged, and a text over
\* the budget yields an output ending in a sentence terminator.
C7_Amended ==
    (pc = "returned" /\ max_words >= 1) =>
        /\ WordCount(result) <= max_words
        /\ (WordCount(text) <= max_words => result = text)
        /\ (WordCount(text) > max_words => EndsWithAny(result, Terminators))

\* a text over the budget with no terminator in the slice: the fallback
C7_Witness ==
    /\ pc = "returned"
    /\ max_words >= 1
    /\ WordCount(text) > max_words
    /\ ~ \E i \in DOMAIN text : text[i] \in Terminators
    /\ result # text

-----------------------------------------------------------------------------
(* The Summary Refiner applied twice: improve_summary(improve_summary(s)).  *)

InitRefine ==
    /\ pc = "improve_summary"
    /\ text \in RefineInputs
    /\ max_words \in RefineMaxWords
    /\ result = <<>>
    /\ Idle

ImproveOnce ==
    /\ pc = "improve_summary"
    /\ refined' = improve_summary(text, max_words)
    /\ pc' = "improved"
    /\ UNCHANGED <<text, max_words, result, sumVars, ansVars>>

ImproveAgain ==
    /\ pc = "improved"
    /\ result' = improve_summary(refined, max_words)
    /\ pc' = "returned"
    /\ UNCHANGED <<text, max_words, refined, sumVars, ansVars>>

NextRefine == ImproveOnce \/ ImproveAgain

SpecRefine == InitRefine /\ [][NextRefine]_vars

\* the \w+ runs of s, lowercased, in order
RECURSIVE RegexWords(_, _, _)
RegexWords(s, i, acc) ==
    LET starts == {j \in i..Len(s) : IsWordChar(s[j])}
    IN  IF starts = {} THEN acc
        ELSE LET j == Least(starts)
                 e == RunEnd(s, j, WordChars)
             IN  RegexWords(s, e + 1, Append(acc, LowerStr(SubSeq(s, j, e))))

\* non-empty, ending in a single period, no word occurring twice (whatever
\* its case and the punctuation around it)
WellFormed(s) ==
    LET ws == RegexWords(s, 1, <<>>)
    IN  /\ s # <<>>
        /\ EndsWith(s, <<".">>)
        /\ ~EndsWith(s, <<".", ".">>)
        /\ \A i, j \in DOMAIN ws : i # j => ws[i] # ws[j]

\* C8: on a well-formed summary a second application of improve_summary
\* changes nothing.
C8_Idempotent ==
    (pc = "returned" /\ WellFormed(text)) => result = refined


-----------------------------------------------------------------------------
(* The Summarization Controller: summarize_text(text), one action per      *)
(* stretch of it between two calls of the summarizer.  The summarizer      *)
(* returns any of SummaryOutputs or raises; summarize_text catches         *)
(* nothing.                                                                *)

InitSum ==
    /\ pc = "summarize_text"
    /\ text \in SeqsUpTo(SentenceWords, MaxSentences) \ {<<>>}
    /\ max_words = 0 /\ result = <<>> /\ refined = <<>>
    /\ calls = <<>> /\ outputs = <<>> /\ chunks = <<>> /\ chunk_summaries = <<>>
    /\ summary = <<>>
    /\ question = <<>> /\ context = <<>> /\ raw_answer = <<>> /\ preamble = <<>>

\* lines 48-58 and 65-71: up to the first call
Summarize ==
    /\ pc = "summarize_text"
    /\ IF word_count <= ShortPathLimit
       THEN /\ calls' = <<Call(text, min_len, max_len)>>
            /\ chunks' = chunks
            /\ pc' = "short_first"
       ELSE LET cks == ChunkGroups(text, SummarizeChunkWords)
            IN  /\ chunks' = cks
                /\ IF cks # <<>>
                   THEN /\ calls' = <<Call(cks[1], first_pass_min, first_pass_max)>>
                        /\ pc' = "chunk"
                   ELSE /\ calls' = <<Call(CombinedSummary(<<>>), min_len, max_len)>>
                        /\ pc' = "final_first"
    /\ UNCHANGED <<text, max_words, result, refined, outputs, chunk_summaries, summary,
                   ansVars>>

\* lines 58-62: the first call returns r
ShortFirstReturns(r) ==
    /\ pc = "short_first"
    /\ outputs' = Append(outputs, r)
    /\ summary' = r
    /\ IF Degenerate(r, min_len)
       THEN /\ calls' = Append(calls, Call(text, min_len, RetryMaxLength(max_len)))
            /\ pc' = "short_retry"
            /\ result' = result
       ELSE /\ calls' = calls
            /\ pc' = "returned"
            /\ result' = r
    /\ UNCHANGED <<text, max_words, refined, chunks, chunk_summaries, ansVars>>

\* lines 61-62: the retry returns r
ShortRetryReturns(r) ==
    /\ pc = "short_retry"
    /\ outputs' = Append(outputs, r)
    /\ summary' = r
    /\ result' = r
    /\ pc' = "returned"
    /\ UNCHANGED <<text, max_words, refined, calls, chunks, chunk_summaries, ansVars>>

\* lines 70-81: the call on a chunk returns r
ChunkReturns(r) ==
    /\ pc = "chunk"
    /\ outputs' = Append(outputs, r)
    /\ chunk_summaries' = Append(chunk_summaries, r)
    /\ IF Len(chunk_summaries') < Len(chunks)
       THEN /\ calls' = Append(calls, Call(chunks[Len(chunk_summaries') + 1],
                                          first_pass_min, first_pass_max))
            /\ pc' = "chunk"
       ELSE /\ calls' = Append(calls, Call(CombinedSummary(chunk_summaries'),
                                          min_len, max_len))
            /\ pc' = "final_first"
    /\ UNCHANGED <<text, max_words, result, refined, chunks, summary, ansVars>>

\* lines 78-88: the call on combined_summary returns r
FinalFirstReturns(r) ==
    /\ pc = "final_first"
    /\ outputs' = Append(outputs, r)
    /\ summary' = r
    /\ IF Degenerate(r, min_len)
       THEN /\ calls' = Append(calls, Call(CombinedSummary(chunk_summaries),
                                          min_len, RetryMaxLength(max_len)))
            /\ pc' = "final_retry"
            /\ result' = result
       ELSE /\ calls' = calls
            /\ pc' = "returned"
            /\ result' = r
    /\ UNCHANGED <<text, max_words, refined, chunks, chunk_summaries, ansVars>>

\* lines 84-88: the retry on combined_summary returns r
FinalRetryReturns(r) ==
    /\ pc = "final_retry"
    /\ outputs' = Append(outputs, r)
    /\ summary' = r
    /\ result' = r
    /\ pc' = "returned"
    /\ UNCHANGED <<text, max_words, refined, calls, chunks, chunk_summaries, ansVars>>

\* any call of the summarizer raises: the exception leaves summarize_text
SummarizerRaises ==
    /\ pc \in {"short_first", "short_retry", "chunk", "final_first", "final_retry"}
    /\ pc' = "raised"
    /\ UNCHANGED <<text, max_words, result, refined, sumVars, ansVars>>

NextSum ==
    \/ Summarize
    \/ \E r \in SummaryOutputs : ShortFirstReturns(r)
    \/ \E r \in SummaryOutputs : ShortRetryReturns(r)
    \/ \E r \in SummaryOutputs : ChunkReturns(r)
    \/ \E r \in SummaryOutputs : FinalFirstReturns(r)
    \/ \E r \in SummaryOutputs : FinalRetryReturns(r)
    \/ SummarizerRaises

SpecSum == InitSum /\ [][NextSum]_vars

\* C1: on the short path there are at most two calls, (text, min_len,
\* max_len) and then, only after a result that fails the controller's test,
\* (text, min_len, max_len + 30); after the second result, or a first one
\* that passes, the request has returned the last result.
C1_ShortPath ==
    (word_count <= 500 /\ pc # "summarize_text") =>
        /\ Len(calls) \in {1, 2}
        /\ calls[1] = Call(text, min_len, max_len)
        /\ Len(calls) = 2 =>
              /\ calls[2] = Call(text, min_len, max_len + 30)
              /\ Len(outputs) >= 1
              /\ Degenerate(outputs[1], min_len)
        /\ Len(outputs) = 2 => pc = "returned"
        /\ (Len(outputs) = 1 /\ ~Degenerate(outputs[1], min_len)) => pc = "returned"
        /\ pc = "returned" =>
              /\ Len(outputs) = Len(calls)
              /\ result = outputs[Len(outputs)]

\* a short request that retried and returned the second result, which is
\* not the first one
C1_Witness ==
    /\ word_count <= 500
    /\ pc = "returned"
    /\ Len(calls) = 2
    /\ outputs[1] # outputs[2]
    /\ result = outputs[2]
    /\ Degenerate(result, min_len)

\* too short, or not ending in '.', '!' or '?'
DegenerateAsSpecified(s, min) ==
    2 * WordCount(s) < min \/ ~EndsWithAny(Strip(s), Terminators)

\* the result the retry test is applied to has been returned
TestedIndex == IF word_count <= 500 THEN 1 ELSE Len(chunks) + 1

\* C2: the retry happens exactly when the result under test has fewer than
\* min_len/2 words or does not end in '.', '!' or '?'.
C2_RetryIff ==
    (pc # "summarize_text" /\ pc # "raised" /\ Len(outputs) >= TestedIndex) =>
        (Len(calls) = TestedIndex + 1
            <=> DegenerateAsSpecified(outputs[TestedIndex], min_len))

\* C3: on the long path the calls are one per chunk, in order, with the
\* first-pass bounds, then one on the chunk summaries joined by single
\* spaces with (min_len, max_len), then at most one more on the same input
\* with max_len + 30; a request that returned made n + 1 or n + 2 calls.
C3_LongPath ==
    (word_count > 500 /\ pc # "summarize_text") =>
        LET n == Len(chunks)
            joined == Flatten([i \in 1..(2 * n - 1) |->
                                 IF i % 2 = 1 THEN outputs[(i + 1) \div 2] ELSE <<" ">>])
        IN  /\ Len(calls) <= n + 2
            /\ \A i \in 1..Min(n, Len(calls)) :
                  calls[i] = Call(chunks[i], Max(15, min_len \div 3), Max(30, max_len \div 3))
            /\ Len(calls) > n =>
                  /\ Len(outputs) >= n
                  /\ calls[n + 1] = Call(joined, min_len, max_len)
            /\ Len(calls) = n + 2 => calls[n + 2] = Call(joined, min_len, max_len + 30)
            /\ pc = "returned" =>
                  /\ Len(calls) \in {n + 1, n + 2}
                  /\ Len(outputs) = Len(calls)
                  /\ result = outputs[Len(outputs)]

\* a long request of several chunks whose summaries differ, with the retry
C3_Witness ==
    /\ word_count > 500
    /\ pc = "returned"
    /\ Len(chunks) >= 2
    /\ Len(calls) = Len(chunks) + 2
    /\ outputs[1] # outputs[2]


-----------------------------------------------------------------------------
(* The Answer Controller: answer_question(question, context).  The QA      *)
(* pipeline returns any raw answer and score, or raises.                   *)

InitAnswer ==
    /\ pc = "answer_question"
    /\ question \in QuestionInputs
    /\ context \in ContextInputs
    /\ text = <<>> /\ max_words = 0 /\ result = <<>> /\ refined = <<>>
    /\ calls = <<>> /\ outputs = <<>> /\ chunks = <<>> /\ chunk_summaries = <<>>
    /\ summary = <<>>
    /\ raw_answer = <<>> /\ preamble = <<>>

\* lines 102-105: the check of the arguments, then the call of the pipeline
AnswerQuestion ==
    /\ pc = "answer_question"
    /\ IF InvalidInput(question, context)
       THEN /\ pc' = "raised ValueError"
            /\ calls' = calls
       ELSE /\ pc' = "qa_pipeline"
            /\ calls' = Append(calls, [question |-> question, context |-> context])
    /\ UNCHANGED <<text, max_words, result, refined, outputs, chunks, chunk_summaries,
                   summary, ansVars>>

\* lines 105-109: the pipeline returns raw answer a and a score, the answer
\* is formatted (random.choice drawing preambles[k]) and returned
PipelineReturns ==
    /\ pc = "qa_pipeline"
    /\ \E a \in AnswerInputs, score \in ScoreInputs, k \in PreambleChoices(question) :
          /\ raw_answer' = a
          /\ preamble' = PreambleUsed(question, a, k)
          /\ result' = Answer(build_fluent_answer(question, a, k), Round4(score))
    /\ pc' = "returned"
    /\ UNCHANGED <<text, max_words, refined, sumVars, question, context>>

\* lines 110-112: the pipeline raises, the fallback is returned
PipelineRaises ==
    /\ pc = "qa_pipeline"
    /\ result' = Answer(Unable, 0)
    /\ pc' = "returned on error"
    /\ UNCHANGED <<text, max_words, refined, sumVars, ansVars>>

NextAnswer ==
    \/ AnswerQuestion
    \/ PipelineReturns
    \/ PipelineRaises

SpecAnswer == InitAnswer /\ [][NextAnswer]_vars

Blank(s) == \A i \in DOMAIN s : s[i] \in Whitespace

\* C4: ValueError is raised, with no call of the pipeline, exactly when the
\* question or the context is blank; otherwise the call is made and an
\* Answer comes back, the fallback when the pipeline raised.
C4_AnswerController ==
    pc # "answer_question" =>
        IF Blank(question) \/ Blank(context)
        THEN pc = "raised ValueError" /\ calls = <<>>
        ELSE /\ pc \in {"qa_pipeline", "returned", "returned on error"}
             /\ Len(calls) = 1
             /\ pc = "returned on error" =>
                   result = [answer |-> Unable, confidence |-> 0]
             /\ pc = "returned" =>
                   DOMAIN result = {"answer", "confidence"}

\* a valid question whose pipeline call raised
C4_Witness ==
    /\ pc = "returned on error"
    /\ ~Blank(question) /\ ~Blank(context)
    /\ result.answer = Unable

\* the raw answer trimmed, ending in '.', '!' or '?' ('.' appended if in none)
Terminated(raw) ==
    IF Strip(raw)[Len(Strip(raw))] \in {".", "!", "?"}
    THEN Strip(raw) ELSE Strip(raw) \o <<".">>

\* C9: in the birth branch the result is "She was born " (the answer
\* starting with in/on/at) or "She was born in ", then the terminated answer
\* with its first letter lowercased, and nothing more.
C9_BirthBranch ==
    (pc = "returned" /\ IsBirthQuestion(question) /\ ~Blank(raw_answer)) =>
        LET t == Terminated(raw_answer)
            body == <<lower(t[1])>> \o Tail(t)
        IN  result.answer =
               (IF StartsWithAny(LowerStr(t), Prepositions) THEN Born ELSE BornIn) \o body

SheWas == preambles[1]

She == <<"S", "h", "e">>

\* C10: outside the birth branch, with the preamble "She was" the result is
\* the normalized answer alone; and whatever is prepended is "She" or one of
\* the five other preambles, followed by a space and the answer with its
\* first letter lowercased.
C10_SheWasNeverPrepended ==
    (pc = "returned" /\ ~IsBirthQuestion(question) /\ ~Blank(raw_answer)) =>
        LET norm == Normalize(raw_answer)
        IN  /\ preamble = SheWas => result.answer = norm
            /\ result.answer # norm =>
                  /\ preamble \in {She} \cup {preambles[i] : i \in 2..6}
                  /\ result.answer = CapFirst(preamble \o <<" ">> \o LowerFirst(norm))

\* "She was" drawn and kept for an answer that does not start with it
C10_Witness ==
    /\ pc = "returned"
    /\ ~IsBirthQuestion(question)
    /\ ~Blank(raw_answer)
    /\ preamble = SheWas
    /\ ~StartsWith(LowerStr(result.answer), LowerStr(SheWas))

=============================================================================
